---- MODULE Spec2Model ----
(***************************************************************************)
(* A model of the cryptarithm solver of src/src/lib.rs: the parser         *)
(* (parse_input), the postfix evaluator (apply_operation), the             *)
(* backtracking search (backtrack) and the cached, two-way parallel        *)
(* solve with its result channel, supervisor and timed wait.               *)
(***************************************************************************)
EXTENDS Integers, Sequences, FiniteSets, TLC

VARIABLES
    overflow_checks,  \* build profile: TRUE when u32 overflow panics, FALSE when it wraps
    input,            \* the text handed to parse_input, a sequence of characters
    caller,           \* the calling thread: where it is and what it holds
    tasks,            \* the two search threads of each solve call that missed the cache
    supervisor,       \* the supervisor thread of each such call
    channel,          \* crossbeam_channel::bounded(1) of each such call: queue and receiver
    cache,            \* the #[cached] store of solve
    now               \* the clock, in seconds

vars == <<overflow_checks, input, caller, tasks, supervisor, channel, cache, now>>

----------------------------------------------------------------------------
(* Characters.  A char is a one-character string; BTreeSet<char> and       *)
(* BTreeMap<char, _> order chars by code point.  char::is_alphabetic is    *)
(* true of the chars with the Unicode property Alphabetic; a small letter  *)
(* is a letter of its own, not its capital.  The model holds the chars up  *)
(* to the code point MaxChar; a string of the module holds no char beyond  *)
(* U+00FF.                                                                 *)

\* the highest code point of a char in a text of the model
MaxChar == 255

Codes(lo, hi) == [k \in 1..(hi - lo + 1) |-> lo + k - 1]

\* the code points U+0041..U+00FF with the property Alphabetic, in order
LetterCodes ==
    Codes(65, 90) \o Codes(97, 122) \o <<170, 181, 186>> \o Codes(192, 214)
        \o Codes(216, 246) \o Codes(248, 255)

\* the chars of these code points
Letters == <<"A", "B", "C", "D", "E", "F", "G", "H", "I", "J", "K", "L",
            "M", "N", "O", "P", "Q", "R", "S", "T", "U", "V", "W", "X",
            "Y", "Z", "a", "b", "c", "d", "e", "f", "g", "h", "i", "j",
            "k", "l", "m", "n", "o", "p", "q", "r", "s", "t", "u", "v",
            "w", "x", "y", "z", "ª", "µ", "º", "À", "Á", "Â", "Ã", "Ä",
            "Å", "Æ", "Ç", "È", "É", "Ê", "Ë", "Ì", "Í", "Î", "Ï", "Ð",
            "Ñ", "Ò", "Ó", "Ô", "Õ", "Ö", "Ø", "Ù", "Ú", "Û", "Ü", "Ý",
            "Þ", "ß", "à", "á", "â", "ã", "ä", "å", "æ", "ç", "è", "é",
            "ê", "ë", "ì", "í", "î", "ï", "ð", "ñ", "ò", "ó", "ô", "õ",
            "ö", "ø", "ù", "ú", "û", "ü", "ý", "þ", "ÿ">>

\* the alphabetic chars the model holds, in the order of their code points
Alphabet ==
    SubSeq(Letters, 1, Cardinality({i \in 1..Len(Letters) : LetterCodes[i] <= MaxChar}))

is_alphabetic(c) == \E i \in 1..Len(Alphabet) : Alphabet[i] = c

CharOrd(c) == CHOOSE i \in 1..Len(Alphabet) : Alphabet[i] = c

\* BTreeSet::first: the smallest char of a non-empty set
First(set) == CHOOSE c \in set : \A d \in set : CharOrd(c) <= CharOrd(d)

Word(bytes) == [tag |-> "Word", val |-> bytes]

Operator(op) == [tag |-> "Operator", val |-> <<op>>]

----------------------------------------------------------------------------
(* u32 arithmetic.  A u32 is kept as two 16-bit limbs <<hi, lo>>, so that  *)
(* every value below 2^32 is represented and every operation is exact.     *)
(* Each operation gives the wrapped result and whether it overflowed.      *)

Limb == 65536

U32Zero == <<0, 0>>

U32Less(a, b) == a[1] < b[1] \/ (a[1] = b[1] /\ a[2] < b[2])

\* the value hi * 2^16 + lo (lo may exceed a limb) wrapped to 32 bits
Wrapped(hi, lo) ==
    [overflow |-> hi + (lo \div Limb) >= Limb,
     val |-> <<(hi + (lo \div Limb)) % Limb, lo % Limb>>]

AddU32(a, b) == Wrapped(a[1] + b[1], a[2] + b[2])

\* a - b is computed as a - b + 2^32, which wraps exactly when a >= b
Borrowed(sum) == [overflow |-> ~sum.overflow, val |-> sum.val]

SubU32(a, b) == Borrowed(Wrapped(a[1] - b[1] + Limb - 1, a[2] - b[2] + Limb))

\* p1 * 256 + p0 as <<hi, lo>>
LimbPair(p1, p0) ==
    <<(p1 \div 256) + (((p1 % 256) * 256 + p0) \div Limb),
      ((p1 % 256) * 256 + p0) % Limb>>

\* the exact product of two limbs, as <<hi, lo>>
MulLimb(x, y) == LimbPair((x \div 256) * y, (x % 256) * y)

\* low + (c1 + c2) * 2^16 (+ 2^32 or more when high) wrapped to 32 bits
MulSum(low, c1, c2, high) ==
    [overflow |-> high \/ c1[1] > 0 \/ c2[1] > 0 \/ low[1] + c1[2] + c2[2] >= Limb,
     val |-> <<(low[1] + c1[2] + c2[2]) % Limb, low[2]>>]

MulU32(a, b) ==
    MulSum(MulLimb(a[2], b[2]), MulLimb(a[1], b[2]), MulLimb(a[2], b[1]),
           a[1] > 0 /\ b[1] > 0)

Pow2 == <<1, 2, 4, 8, 16, 32, 64, 128, 256, 512, 1024, 2048, 4096, 8192, 16384, 32768>>

BitOf(a, i) == IF i >= 16 THEN (a[1] \div Pow2[i - 15]) % 2 ELSE (a[2] \div Pow2[i + 1]) % 2

\* 2 * x + bit; the high limb is left to grow past 16 bits
Shifted(x, bit) == <<2 * x[1] + ((2 * x[2] + bit) \div Limb), (2 * x[2] + bit) % Limb>>

\* x - y for x >= y
Minus(x, y) ==
    IF x[2] < y[2] THEN <<x[1] - y[1] - 1, x[2] - y[2] + Limb>>
    ELSE <<x[1] - y[1], x[2] - y[2]>>

\* a / d for a divisor below 2^15, limb by limb
ShortDiv(a, d) == <<a[1] \div d, ((a[1] % d) * Limb + a[2]) \div d>>

\* one step of binary long division: bit is brought down into the
\* remainder st[2] and the quotient st[1] gains a bit
DivBit(b, bit, st) ==
    IF U32Less(Shifted(st[2], bit), b)
    THEN <<Shifted(st[1], 0), Shifted(st[2], bit)>>
    ELSE <<Shifted(st[1], 1), Minus(Shifted(st[2], bit), b)>>

\* <<quotient, remainder>> of (a with its bits below i dropped) by a
\* divisor of at least 2^15: the bits above bit 16 are less than b
RECURSIVE LongDiv(_, _, _)
LongDiv(a, b, i) ==
    IF i > 16 THEN <<U32Zero, <<0, a[1] \div 2>>>>
    ELSE DivBit(b, BitOf(a, i), LongDiv(a, b, i + 1))

\* a / b for b # 0 (truncating)
DivU32(a, b) ==
    IF b[1] = 0 /\ b[2] < 32768 THEN ShortDiv(a, b[2]) ELSE LongDiv(a, b, 0)[1]

\* str::parse::<u32> of a string of decimal digits: an error when the
\* string is empty or its value does not fit
RECURSIVE ParseDigits(_, _, _)
ParseDigit(ds, i, hi, lo) ==
    IF hi + (lo \div Limb) >= Limb THEN [ok |-> FALSE, val |-> U32Zero]
    ELSE ParseDigits(ds, i + 1, <<hi + (lo \div Limb), lo % Limb>>)

ParseDigits(ds, i, acc) ==
    IF i > Len(ds) THEN [ok |-> TRUE, val |-> acc]
    ELSE ParseDigit(ds, i, acc[1] * 10, acc[2] * 10 + ds[i])

ParseU32(ds) ==
    IF Len(ds) = 0 THEN [ok |-> FALSE, val |-> U32Zero] ELSE ParseDigits(ds, 1, U32Zero)

----------------------------------------------------------------------------
(* apply_operation: the postfix evaluator.                                 *)

\* equation.mapping.get(c).unwrap_or(&1)
DigitOf(mapping, c) == IF c \in DOMAIN mapping THEN mapping[c] ELSE 1

\* the digits of a word under a mapping, in the order join("") writes them
WordDigits(mapping, bytes) == [k \in 1..Len(bytes) |-> DigitOf(mapping, bytes[k])]

\* a + b, a - b, a * b on u32: an overflow panics when the build checks
\* it and wraps otherwise
Checked(r) == [panic |-> overflow_checks /\ r.overflow, val |-> r.val]

\* a op b; division by zero always panics
ApplyOperator(op, a, b) ==
    IF op = "+" THEN Checked(AddU32(a, b))
    ELSE IF op = "-" THEN Checked(SubU32(a, b))
    ELSE IF op = "*" THEN Checked(MulU32(a, b))
    ELSE IF b = U32Zero THEN [panic |-> TRUE, val |-> U32Zero]
    ELSE [panic |-> FALSE, val |-> DivU32(a, b)]

\* the loop over rpn_token: the stack it leaves, or how it stopped
RECURSIVE EvalTokens(_, _, _)
\* stack.push(num) after parse::<u32>().unwrap()
PushWord(equation, i, stack, num) ==
    IF ~num.ok THEN [status |-> "panic", stack |-> stack]
    ELSE EvalTokens(equation, i + 1, Append(stack, num.val))

\* stack.push(res)
PushResult(equation, i, stack, res) ==
    IF res.panic THEN [status |-> "panic", stack |-> stack]
    ELSE EvalTokens(equation, i + 1, Append(stack, res.val))

EvalToken(equation, i, stack, token) ==
    IF token.tag = "Word"
    THEN PushWord(equation, i, stack, ParseU32(WordDigits(equation.mapping, token.val)))
    ELSE IF Len(stack) < 2 THEN [status |-> "err", stack |-> stack]
    ELSE PushResult(equation, i, SubSeq(stack, 1, Len(stack) - 2),
                    ApplyOperator(token.val[1], stack[Len(stack) - 1], stack[Len(stack)]))

EvalTokens(equation, i, stack) ==
    IF i > Len(equation.rpn_token) THEN [status |-> "ok", stack |-> stack]
    ELSE EvalToken(equation, i, stack, equation.rpn_token[i])

\* Ok(output == result), or the Err of parse::<u32>()?
Compared(output, result) ==
    IF ~result.ok THEN "err"
    ELSE IF output = result.val THEN "true" ELSE "false"

\* what follows the loop: stack.pop() and the comparison with the result
Output(equation, ev) ==
    IF ev.status # "ok" THEN ev.status
    ELSE IF Len(ev.stack) = 0 THEN "err"
    ELSE Compared(ev.stack[Len(ev.stack)],
                  ParseU32(WordDigits(equation.mapping, equation.result)))

\* Ok(true) "true", Ok(false) "false", Err "err", a panic "panic"
apply_operation(equation) == Output(equation, EvalTokens(equation, 1, <<>>))

----------------------------------------------------------------------------
(* parse_input: the tokenizer and shunting-yard parser.                    *)

is_operator(c) == c = "+" \/ c = "-" \/ c = "*" \/ c = "/"

\* a precedence that would rank the four operators alike
precedence_flat(op) == IF is_operator(op) THEN 1 ELSE 0

precedence(op) == IF op = "+" \/ op = "-" THEN 1
                  ELSE IF op = "*" \/ op = "/" THEN 2
                  ELSE 0

\* expresion.replace(op, " op ") for each of the four operators
PadOperators(s) ==
    [k \in 1..Len(s) |-> IF is_operator(s[k]) THEN <<" ", s[k], " ">> ELSE <<s[k]>>]

EmptyMapping == [c \in {} |-> 0]

NewEquation == [rpn_token |-> <<>>, result |-> <<>>, mapping |-> EmptyMapping,
                unique_chars |-> {}, special_chars |-> {}]

\* while let Some(&top) = operators.last(): pop into rpn_token while
\* precedence(top) >= precedence(ch); then operators.push(ch)
RECURSIVE PushOperator(_, _)
PushOperator(st, ch) ==
    IF Len(st.operators) > 0 /\ precedence(st.operators[Len(st.operators)]) >= precedence(ch)
    THEN PushOperator([st EXCEPT
                          !.equation.rpn_token =
                              Append(@, Operator(st.operators[Len(st.operators)])),
                          !.operators = SubSeq(@, 1, Len(@) - 1)],
                      ch)
    ELSE [st EXCEPT !.operators = Append(@, ch)]

\* one turn of the for loop over the characters
ScanChar(st, ch) ==
    IF is_alphabetic(ch) THEN
        [st EXCEPT !.equation.unique_chars = @ \cup {ch},
                   !.buffer = Append(@, ch)]
    ELSE IF ~is_operator(ch) /\ ch # " " /\ ch # "=" THEN
        [st EXCEPT !.invalid = TRUE]
    ELSE IF Len(st.buffer) > 0 THEN
        [st EXCEPT !.equation.special_chars = @ \cup {st.buffer[1]},
                   !.equation.rpn_token = Append(@, Word(st.buffer)),
                   !.buffer = <<>>]
    ELSE IF is_operator(ch) THEN PushOperator(st, ch)
    ELSE st

\* the for loop over the characters of the padded text, given piece by
\* piece: piece k is character k with the blanks put around it
RECURSIVE ScanChars(_, _, _, _)
ScanChars(s, k, j, st) ==
    IF k > Len(s) \/ st.invalid THEN st
    ELSE IF j > Len(s[k]) THEN ScanChars(s, k + 1, 1, st)
    ELSE ScanChars(s, k, j + 1, ScanChar(st, s[k][j]))

\* while let Some(op) = operators.pop()
RECURSIVE DrainOperators(_, _)
DrainOperators(rpn, operators) ==
    IF Len(operators) = 0 THEN rpn
    ELSE DrainOperators(Append(rpn, Operator(operators[Len(operators)])),
                        SubSeq(operators, 1, Len(operators) - 1))

\* if !buffer.is_empty(): the pending word becomes the result
FlushResult(st) ==
    IF Len(st.buffer) > 0
    THEN [st.equation EXCEPT !.special_chars = @ \cup {st.buffer[1]},
                             !.result = st.buffer]
    ELSE st.equation

Scanned(st) ==
    [invalid |-> st.invalid,
     equation |-> [FlushResult(st) EXCEPT !.rpn_token = DrainOperators(@, st.operators)]]

\* parse_input up to the trial evaluation: the Equation it has built
ScanInput(expresion) ==
    Scanned(ScanChars(PadOperators(expresion), 1, 1,
                      [equation |-> NewEquation, buffer |-> <<>>,
                       operators |-> <<>>, invalid |-> FALSE]))

\* apply_operation(&equation)?; Ok(equation)
Validated(equation, trial) ==
    IF trial = "err" \/ trial = "panic"
    THEN [status |-> trial, equation |-> NewEquation]
    ELSE [status |-> "ok", equation |-> equation]

Checked_input(scanned) ==
    IF scanned.invalid THEN [status |-> "err", equation |-> NewEquation]
    ELSE Validated(scanned.equation, apply_operation(scanned.equation))

\* status "ok" with the Equation, "err" for an Err, "panic" for a panic
parse_input(expresion) == Checked_input(ScanInput(expresion))

----------------------------------------------------------------------------
(* Program constants and the bounds of the model.                          *)

\* #[cached(time = 120)]: the time-to-live of a cache entry, in seconds
TTL == 120

\* recv_timeout(Duration::from_secs(7))
RecvTimeout == 7

\* the largest digit of (0..=9)
MaxDigit == 9

\* the calls of solve one behaviour makes
MaxCalls == 2

\* the threads of earlier calls that may still run when a call misses the
\* cache and spawns its own
MaxOrphans == 1

\* the clock stops here
MaxNow == 130

\* the time that passes in one step while the caller is between calls
IdleStep == 60

\* the most time that passes in one step while the caller waits in
\* recv_timeout
WaitStep == 4

\* the most operators in a text of InfixSpec
MaxOperators == 3

\* the longest text handed to parse_input by ParseSpec
MaxInputLen == 5

----------------------------------------------------------------------------
(* The state of a solve call that missed the cache: two search threads,    *)
(* the supervisor thread and the result channel.  The threads are detached *)
(* and go on after solve has returned; the threads of one call share       *)
(* nothing with the threads of another (each call has its own channel and  *)
(* its own clones of the equation).  Calls are numbered by the order of    *)
(* their misses.                                                           *)

Calls == 1..MaxCalls

\* [(0..=9).rev().collect_vec(), (0..=9).collect_vec()]
Digits(i) == IF i = 1 THEN [k \in 1..(MaxDigit + 1) |-> MaxDigit + 1 - k]
             ELSE [k \in 1..(MaxDigit + 1) |-> k - 1]

Range(f) == {f[x] : x \in DOMAIN f}

\* a remove that would leave the letter in the map
MapKeep(mapping, ch) == mapping

\* BTreeMap::insert and BTreeMap::remove
MapInsert(mapping, ch, digit) ==
    [c \in (DOMAIN mapping) \cup {ch} |-> IF c = ch THEN digit ELSE mapping[c]]

MapRemove(mapping, ch) == [c \in (DOMAIN mapping) \ {ch} |-> mapping[c]]

NoTask == [pc |-> "unspawned", equation |-> NewEquation, digits |-> <<>>,
           stack |-> <<>>, ret |-> "none", status |-> "none", sends |-> 0]

\* thread::spawn(move || backtrack(&mut equation, &digits, &rx)...)
SpawnTask(equation, i) ==
    [pc |-> "call", equation |-> equation, digits |-> Digits(i),
     stack |-> <<>>, ret |-> "none", status |-> "running", sends |-> 0]

TaskOver(t) == t.pc \in {"unspawned", "done", "panicked"}

SupervisorOver(s) == s.pc \in {"unspawned", "done", "panicked"}

\* every Sender of call g is dropped: its channel is disconnected for the
\* receiver
SendersDropped(g) ==
    TaskOver(tasks[g][1]) /\ TaskOver(tasks[g][2]) /\ SupervisorOver(supervisor[g])

\* the threads that still run
Orphans ==
    Cardinality({x \in Calls \X (1..2) : ~TaskOver(tasks[x[1]][x[2]])})
        + Cardinality({g \in Calls : ~SupervisorOver(supervisor[g])})

\* a send that would stay blocked on a full slot after the receiver is gone
CanSendWhileReceived(ch) == Len(ch.queue) < 1

\* Sender::send on the bounded(1) channel: it blocks while the slot is
\* full and the receiver lives, fails once the receiver is dropped
CanSend(ch) == ~ch.receiver \/ Len(ch.queue) < 1

\* a send that would put its message in the place of what the slot holds
SendReplacing(ch, msg) == [ch EXCEPT !.queue = <<msg>>]

SendOn(ch, msg) == IF ~ch.receiver THEN ch
                   ELSE [ch EXCEPT !.queue = Append(@, msg)]

----------------------------------------------------------------------------
(* backtrack, one step at a time.  A frame of the stack is one activation  *)
(* of backtrack in its for loop: its letter ch and the index of the digit  *)
(* it is at.                                                               *)

\* a loop that would leave out the test of line 83
AdmissibleLeading(equation, digits, ch, i) ==
    {j \in i..Len(digits) : digits[j] \notin Range(equation.mapping)}

\* a loop that would leave out the test of line 86
AdmissibleUsed(equation, digits, ch, i) ==
    {j \in i..Len(digits) : ~(digits[j] = 0 /\ ch \in equation.special_chars)}

\* the digits still to try for ch from index i on: those that pass the
\* tests of lines 83 and 86
Admissible(equation, digits, ch, i) ==
    {j \in i..Len(digits) :
        /\ ~(digits[j] = 0 /\ ch \in equation.special_chars)
        /\ digits[j] \notin Range(equation.mapping)}

Min(set) == CHOOSE x \in set : \A y \in set : x <= y

\* the base case: return apply_operation(equation).  An Err goes up
\* through the ? of every activation and ends the thread; a panic kills it
Evaluated(t, r) ==
    IF r = "panic" THEN [t EXCEPT !.pc = "panicked", !.status = "panicked"]
    ELSE IF r = "err" THEN [t EXCEPT !.pc = "done", !.status = "err", !.stack = <<>>]
    ELSE [t EXCEPT !.pc = "return", !.ret = r]

\* the recursive case: unique_chars.pop_first(), then the for loop.  The
\* frame also keeps the mapping and the unassigned letters the call was
\* entered with; the search never reads them
Entered(t, ch) ==
    [t EXCEPT !.equation.unique_chars = @ \ {ch},
              !.stack = Append(@, [ch |-> ch, i |-> 1,
                                   mapping |-> t.equation.mapping,
                                   unique_chars |-> t.equation.unique_chars]),
              !.pc = "loop"]

\* entry of backtrack
CallStep(t) ==
    IF t.equation.unique_chars = {} THEN Evaluated(t, apply_operation(t.equation))
    ELSE Entered(t, First(t.equation.unique_chars))

\* a loop that would not put its letter back when it runs out of digits
TriedNoRestore(t, frame, ok) ==
    IF ok = {} THEN
        [t EXCEPT !.stack = SubSeq(@, 1, Len(@) - 1),
                  !.ret = "false",
                  !.pc = "return"]
    ELSE
        [t EXCEPT !.equation.mapping = MapInsert(@, frame.ch, t.digits[Min(ok)]),
                  !.stack[Len(t.stack)].i = Min(ok),
                  !.pc = "call"]

\* the for loop from digit index frame.i on: the next digit that passes
\* the tests is inserted and backtrack is called; with none left the
\* letter goes back to unique_chars and Ok(false) is returned
Tried(t, frame, ok) ==
    IF ok = {} THEN
        [t EXCEPT !.equation.unique_chars = @ \cup {frame.ch},
                  !.stack = SubSeq(@, 1, Len(@) - 1),
                  !.ret = "false",
                  !.pc = "return"]
    ELSE
        [t EXCEPT !.equation.mapping = MapInsert(@, frame.ch, t.digits[Min(ok)]),
                  !.stack[Len(t.stack)].i = Min(ok),
                  !.pc = "call"]

Top(t) == t.stack[Len(t.stack)]

LoopStep(t) == Tried(t, Top(t), Admissible(t.equation, t.digits, Top(t).ch, Top(t).i))

\* a call has returned Ok(ret): to the thread body when the stack is empty,
\* else to line 88 of the frame on top, which sends on true and removes
\* the letter and moves to the next digit on false
ReturnStep(t) ==
    IF Len(t.stack) = 0 THEN
        [t EXCEPT !.pc = "done", !.status = IF t.ret = "true" THEN "found" ELSE "notfound"]
    ELSE IF t.ret = "true" THEN [t EXCEPT !.pc = "send"]
    ELSE
        [t EXCEPT !.equation.mapping = MapRemove(@, Top(t).ch),
                  !.stack[Len(t.stack)].i = Top(t).i + 1,
                  !.ret = "none",
                  !.pc = "loop"]

\* a frame that would take its letter out of the mapping after its send
SentStepRemoving(t) ==
    [t EXCEPT !.equation.mapping = MapRemove(@, Top(t).ch),
              !.stack = SubSeq(@, 1, Len(@) - 1), !.sends = @ + 1, !.pc = "return"]

\* after rx.send(equation.mapping.clone()).unwrap_or(()): return Ok(true)
SentStep(t) ==
    [t EXCEPT !.stack = SubSeq(@, 1, Len(@) - 1), !.sends = @ + 1, !.pc = "return"]

TaskCall(g, i) ==
    /\ tasks[g][i].pc = "call"
    /\ tasks' = [tasks EXCEPT ![g][i] = CallStep(tasks[g][i])]
    /\ UNCHANGED <<overflow_checks, input, caller, supervisor, channel, cache, now>>

TaskLoop(g, i) ==
    /\ tasks[g][i].pc = "loop"
    /\ tasks' = [tasks EXCEPT ![g][i] = LoopStep(tasks[g][i])]
    /\ UNCHANGED <<overflow_checks, input, caller, supervisor, channel, cache, now>>

TaskReturn(g, i) ==
    /\ tasks[g][i].pc = "return"
    /\ tasks' = [tasks EXCEPT ![g][i] = ReturnStep(tasks[g][i])]
    /\ UNCHANGED <<overflow_checks, input, caller, supervisor, channel, cache, now>>

TaskSend(g, i) ==
    /\ tasks[g][i].pc = "send"
    /\ CanSend(channel[g])
    /\ channel' = [channel EXCEPT ![g] = SendOn(channel[g], tasks[g][i].equation.mapping)]
    /\ tasks' = [tasks EXCEPT ![g][i] = SentStep(tasks[g][i])]
    /\ UNCHANGED <<overflow_checks, input, caller, supervisor, cache, now>>

TaskStep(g, i) == TaskCall(g, i) \/ TaskLoop(g, i) \/ TaskReturn(g, i) \/ TaskSend(g, i)

----------------------------------------------------------------------------
(* The supervisor thread: join both search threads, then send the empty    *)
(* mapping.                                                                *)

\* a join that would not wait for the thread
JoinedNoWait(ts, k) == k \in 1..2

\* task.join() returns once the thread is over
Joined(ts, k) == ts[k].pc \in {"done", "panicked"}

\* task.join().unwrap(): a panicked thread makes the supervisor panic
SupervisorJoin(g) ==
    /\ supervisor[g].pc = "join"
    /\ Joined(tasks[g], supervisor[g].k)
    /\ supervisor' =
          IF tasks[g][supervisor[g].k].pc = "panicked"
          THEN [supervisor EXCEPT ![g].pc = "panicked"]
          ELSE IF supervisor[g].k < 2 THEN [supervisor EXCEPT ![g].k = @ + 1]
          ELSE [supervisor EXCEPT ![g].pc = "send"]
    /\ UNCHANGED <<overflow_checks, input, caller, tasks, channel, cache, now>>

\* rx.send(BTreeMap::new()).unwrap_or_default()
SupervisorSend(g) ==
    /\ supervisor[g].pc = "send"
    /\ CanSend(channel[g])
    /\ channel' = [channel EXCEPT ![g] = SendOn(channel[g], EmptyMapping)]
    /\ supervisor' = [supervisor EXCEPT ![g].pc = "done"]
    /\ UNCHANGED <<overflow_checks, input, caller, tasks, cache, now>>

SupervisorStep(g) == SupervisorJoin(g) \/ SupervisorSend(g)

----------------------------------------------------------------------------
(* The cache of #[cached(size = 1024, time = 120)].  A behaviour of the    *)
(* model solves one equation, so the store never holds more than one key   *)
(* and its capacity of 1024 keys is never reached.                         *)

\* a cache that would hand back only solutions
cache_get_found(key) ==
    {e.value : e \in {x \in cache : x.key = key /\ x.value # EmptyMapping
                                     /\ now - x.stored < TTL}}

\* cache_get: the value stored for key, unless its entry is 120 s old
cache_get(key) == {e.value : e \in {x \in cache : x.key = key /\ now - x.stored < TTL}}

\* cache_set: the entry of key is replaced and stamped with the time
cache_set(key, value) ==
    {x \in cache : x.key # key} \cup {[key |-> key, value |-> value, stored |-> now]}

----------------------------------------------------------------------------
(* The calling thread: parse_input once, then calls of solve.              *)

NewCaller == [pc |-> "start", status |-> "none", equation |-> NewEquation,
              calls |-> 0, spawned |-> 0, called |-> 0, deadline |-> 0,
              how |-> "none", value |-> EmptyMapping, results |-> <<>>]

Parsed(parsed) ==
    [caller EXCEPT !.pc = IF parsed.status = "ok" THEN "idle" ELSE "rejected",
                   !.status = parsed.status,
                   !.equation = parsed.equation]

\* let equation = parse_input(input)?
ParseInput ==
    /\ caller.pc = "start"
    /\ caller' = Parsed(parse_input(input))
    /\ UNCHANGED <<overflow_checks, input, tasks, supervisor, channel, cache, now>>

\* solve(equation) finds the key in the cache: the stored mapping is
\* returned and the body of solve does not run
SolveHit ==
    /\ caller.pc = "idle"
    /\ caller.calls < MaxCalls
    /\ \E value \in cache_get(caller.equation) :
          caller' = [caller EXCEPT
                        !.calls = @ + 1,
                        !.called = now,
                        !.how = "hit",
                        !.value = value,
                        !.results = Append(@, [value |-> value, how |-> "hit",
                                               called |-> now, returned |-> now,
                                               spawned |-> caller.spawned])]
    /\ UNCHANGED <<overflow_checks, input, tasks, supervisor, channel, cache, now>>

\* solve(equation) misses the cache: the body makes the channel, spawns the
\* two searches and the supervisor, and waits in recv_timeout.  It does
\* not wait for the threads of earlier calls, which run on beside the new
\* ones
SolveMiss ==
    /\ caller.pc = "idle"
    /\ caller.calls < MaxCalls
    /\ cache_get(caller.equation) = {}
    /\ Orphans <= MaxOrphans
    /\ channel' = [channel EXCEPT ![caller.spawned + 1] = [queue |-> <<>>, receiver |-> TRUE]]
    /\ tasks' = [tasks EXCEPT ![caller.spawned + 1] =
                                [i \in 1..2 |-> SpawnTask(caller.equation, i)]]
    /\ supervisor' = [supervisor EXCEPT ![caller.spawned + 1] = [pc |-> "join", k |-> 1]]
    /\ caller' = [caller EXCEPT !.pc = "waiting",
                                !.calls = @ + 1,
                                !.spawned = @ + 1,
                                !.called = now,
                                !.deadline = now + RecvTimeout,
                                !.how = "none",
                                !.value = EmptyMapping]
    /\ UNCHANGED <<overflow_checks, input, cache, now>>

\* recv_timeout returns Ok(mapping): the message in the slot
CallerRecv ==
    /\ caller.pc = "waiting"
    /\ Len(channel[caller.spawned].queue) > 0
    /\ caller' = [caller EXCEPT !.pc = "returning", !.how = "recv",
                                !.value = Head(channel[caller.spawned].queue)]
    /\ channel' = [channel EXCEPT ![caller.spawned].queue = Tail(@)]
    /\ UNCHANGED <<overflow_checks, input, tasks, supervisor, cache, now>>

\* recv_timeout returns Err(Disconnected): unwrap_or_default gives the
\* empty mapping
CallerDisconnected ==
    /\ caller.pc = "waiting"
    /\ Len(channel[caller.spawned].queue) = 0
    /\ SendersDropped(caller.spawned)
    /\ caller' = [caller EXCEPT !.pc = "returning", !.how = "disconnected",
                                !.value = EmptyMapping]
    /\ UNCHANGED <<overflow_checks, input, tasks, supervisor, channel, cache, now>>

\* a recv without a time bound
CallerNoTimeout == FALSE /\ UNCHANGED vars

\* recv_timeout returns Err(Timeout) once 7 s have passed with the slot
\* empty: unwrap_or_default gives the empty mapping
CallerTimeout ==
    /\ caller.pc = "waiting"
    /\ Len(channel[caller.spawned].queue) = 0
    /\ now >= caller.deadline
    /\ caller' = [caller EXCEPT !.pc = "returning", !.how = "timeout",
                                !.value = EmptyMapping]
    /\ UNCHANGED <<overflow_checks, input, tasks, supervisor, channel, cache, now>>

\* the body of solve returns: the receiver is dropped, the wrapper stores
\* the mapping under the key and hands it to the caller
SolveReturn ==
    /\ caller.pc = "returning"
    /\ channel' = [channel EXCEPT ![caller.spawned].receiver = FALSE]
    /\ cache' = cache_set(caller.equation, caller.value)
    /\ caller' = [caller EXCEPT
                     !.pc = "idle",
                     !.results = Append(@, [value |-> caller.value, how |-> caller.how,
                                            called |-> caller.called, returned |-> now,
                                            spawned |-> caller.spawned])]
    /\ UNCHANGED <<overflow_checks, input, tasks, supervisor, now>>

\* time passes while the caller waits, up to the deadline of
\* recv_timeout: the wait can end at any of the times the clock shows
WaitTick ==
    /\ caller.pc = "waiting"
    /\ now < caller.deadline
    /\ now' = IF now + WaitStep < caller.deadline THEN now + WaitStep ELSE caller.deadline
    /\ UNCHANGED <<overflow_checks, input, caller, tasks, supervisor, channel, cache>>

\* time passes between two calls
IdleTick ==
    /\ caller.pc = "idle"
    /\ now + IdleStep <= MaxNow
    /\ now' = now + IdleStep
    /\ UNCHANGED <<overflow_checks, input, caller, tasks, supervisor, channel, cache>>

CallerWait == WaitTick \/ CallerRecv \/ CallerDisconnected \/ CallerTimeout

----------------------------------------------------------------------------
(* The specifications.                                                     *)

\* the puzzles Spec solves
SolveInputs == {
    <<"A", "A", "/", "B", "=", "B">>,
    <<"A", "+", "A", "=", "A">>,
    <<"A", "+", "*", "B", "=", "C">>,
    <<"A", "A", "A", "A", "A", "A", "A", "A", "A", "A", "+", "A", "=", "A">>,
    <<"A", "A", "A", "A", "A", "A", "A", "A", "A", "A", "/", "A", "=",
      "B", "B", "B", "B", "B", "B", "B", "B", "B", "B">> }

\* "F-BJD=ECJEJGHBAI" and "A-A*A=A", puzzles whose subtraction can go
\* below 0, and "AAAAAAAAA*AA-AAAAAAAAA+A=AAAAAAAAAA", solved by A = 1,
\* whose product leaves u32 from A = 4 on
WrapInputs == {
    <<"F", "-", "B", "J", "D", "=", "E", "C", "J", "E", "J", "G", "H", "B", "A", "I">>,
    <<"A", "-", "A", "*", "A", "=", "A">>,
    <<"A", "A", "A", "A", "A", "A", "A", "A", "A", "*", "A", "A", "-",
      "A", "A", "A", "A", "A", "A", "A", "A", "A", "+", "A", "=",
      "A", "A", "A", "A", "A", "A", "A", "A", "A", "A">> }

\* the characters ParseSpec builds its texts from
ParseChars == {"A", "B", "a", "é", "+", "-", "*", "/", " ", "=", "?"}

ParseInputs == UNION {[1..n -> ParseChars] : n \in 0..MaxInputLen}

InitWith(inputs) ==
    /\ overflow_checks \in BOOLEAN
    /\ input \in inputs
    /\ caller = NewCaller
    /\ tasks = [g \in Calls |-> [i \in 1..2 |-> NoTask]]
    /\ supervisor = [g \in Calls |-> [pc |-> "unspawned", k |-> 1]]
    /\ channel = [g \in Calls |-> [queue |-> <<>>, receiver |-> FALSE]]
    /\ cache = {}
    /\ now = 0

Init == InitWith(SolveInputs)

Next ==
    \/ ParseInput
    \/ SolveHit
    \/ SolveMiss
    \/ CallerWait
    \/ SolveReturn
    \/ IdleTick
    \/ \E g \in Calls, i \in 1..2 : TaskStep(g, i)
    \/ \E g \in Calls : SupervisorStep(g)

Spec == Init /\ [][Next]_vars

\* the clock runs and the calling thread is scheduled; a search thread may
\* take any time over its next step
Fairness ==
    /\ WF_vars(CallerWait)
    /\ WF_vars(SolveReturn)

\* the puzzles of the specifications with fairness: "A=A", which every
\* digit but 0 solves, and "AAAAAAAAAA+A=A", whose words leave u32
FairInputs == {
    <<"A", "=", "A">>,
    <<"A", "A", "A", "A", "A", "A", "A", "A", "A", "A", "+", "A", "=", "A">> }

FairInit == InitWith(FairInputs)

FairSpec == FairInit /\ [][Next]_vars /\ Fairness

\* search thread i of call g can take a step: it is not over, and if it is
\* in a send the send can act; every step of TaskStep(g, i) changes
\* tasks[g][i]
TaskEnabled(g, i) ==
    \/ tasks[g][i].pc \in {"call", "loop", "return"}
    \/ tasks[g][i].pc = "send" /\ CanSend(channel[g])

\* every spawned thread is scheduled as well: a search thread or the
\* supervisor that can take its next step takes it in the end.  For the
\* search threads this is WF_vars(TaskStep(g, i)), with the enabling
\* condition of TaskStep(g, i) written out as TaskEnabled(g, i)
ThreadFairness ==
    /\ Fairness
    /\ \A g \in Calls, i \in 1..2 :
          []<>(~TaskEnabled(g, i)) \/ []<><<TaskStep(g, i)>>_vars
    /\ \A g \in Calls : WF_vars(SupervisorStep(g))

ThreadSpec == FairInit /\ [][Next]_vars /\ ThreadFairness

\* Spec for the puzzles whose evaluation leaves the range of u32
WrapInit == InitWith(WrapInputs)

WrapSpec == WrapInit /\ [][Next]_vars

\* parse_input alone, over every text of at most MaxInputLen characters
ParseInit == InitWith(ParseInputs)

ParseSpec == ParseInit /\ [][ParseInput]_vars

\* the text  A op1 B op2 C ... = R  with the operators of ops, its
\* operands and its result word the first letters of the alphabet in turn
InfixText(ops) ==
    [p \in 1..(2 * Len(ops) + 3) |->
        IF p = 2 * Len(ops) + 2 THEN "="
        ELSE IF p % 2 = 1 THEN Alphabet[(p + 1) \div 2]
        ELSE ops[p \div 2]]

InfixInputs ==
    {InfixText(ops) : ops \in UNION {[1..n -> {"+", "-", "*", "/"}] : n \in 0..MaxOperators}}

\* the digits InfixSpec gives to letters
InfixDigits == {0, 2, 7}

\* backtrack entered with no letter left to assign (lib.rs:74-76), for any
\* complete mapping of the parsed equation
LeafCall ==
    /\ caller.pc = "idle"
    /\ tasks[1][1].pc = "unspawned"
    /\ \E m \in [caller.equation.unique_chars -> InfixDigits] :
          tasks' = [tasks EXCEPT ![1][1] =
                       CallStep([SpawnTask(caller.equation, 1) EXCEPT
                                    !.equation.mapping = m,
                                    !.equation.unique_chars = {}])]
    /\ UNCHANGED <<overflow_checks, input, caller, supervisor, channel, cache, now>>

\* parse_input and one evaluation, over the texts of InfixInputs
InfixInit == InitWith(InfixInputs)

InfixNext == ParseInput \/ LeafCall

InfixSpec == InfixInit /\ [][InfixNext]_vars

----------------------------------------------------------------------------
(* What the puzzle text itself says, read off the input without the        *)
(* parser: its letters, the first letter of each word, its words.          *)

LettersOf(text) == {text[k] : k \in {j \in 1..Len(text) : is_alphabetic(text[j])}}

LeadingOf(text) ==
    {text[k] : k \in {j \in 1..Len(text) :
                        /\ is_alphabetic(text[j])
                        /\ (j = 1 \/ ~is_alphabetic(text[j - 1]))}}

\* the positions where a word starts, and the word that starts there
WordStarts(text) ==
    {j \in 1..Len(text) : is_alphabetic(text[j]) /\ (j = 1 \/ ~is_alphabetic(text[j - 1]))}

WordEnd(text, j) ==
    CHOOSE e \in j..Len(text) :
        /\ \A k \in j..e : is_alphabetic(text[k])
        /\ (e = Len(text) \/ ~is_alphabetic(text[e + 1]))

WordAt(text, j) == SubSeq(text, j, WordEnd(text, j))

EqualsSigns(text) == {j \in 1..Len(text) : text[j] = "="}

\* the words of the postfix sequence, in order
RECURSIVE RpnWords(_)
RpnWords(rpn) ==
    IF Len(rpn) = 0 THEN <<>>
    ELSE IF rpn[1].tag = "Word" THEN <<rpn[1].val>> \o RpnWords(Tail(rpn))
    ELSE RpnWords(Tail(rpn))

\* the words of the text that start in the set of positions, in order
RECURSIVE WordsFrom(_, _)
WordsFrom(text, starts) ==
    IF starts = {} THEN <<>>
    ELSE <<WordAt(text, Min(starts))>> \o WordsFrom(text, starts \ {Min(starts)})

----------------------------------------------------------------------------
(* Exact integer arithmetic on the postfix sequence, for puzzles whose     *)
(* left-hand words have at most four letters.                              *)

RECURSIVE IntOf(_)
IntOf(ds) == IF Len(ds) = 0 THEN 0 ELSE 10 * IntOf(SubSeq(ds, 1, Len(ds) - 1)) + ds[Len(ds)]

\* the decimal digits of n >= 0, without leading zeros
RECURSIVE Decimal(_)
Decimal(n) == IF n < 10 THEN <<n>> ELSE Append(Decimal(n \div 10), n % 10)

RECURSIVE StripZeros(_)
StripZeros(ds) == IF Len(ds) > 1 /\ ds[1] = 0 THEN StripZeros(Tail(ds)) ELSE ds

\* the integer the postfix sequence denotes: the stack it leaves, or
\* <<>> when it is not defined (too few operands, a division by zero)
RECURSIVE IntEval(_, _, _)
IntEval(rpn, mapping, stack) ==
    IF Len(rpn) = 0 THEN stack
    ELSE IF rpn[1].tag = "Word"
    THEN IntEval(Tail(rpn), mapping, Append(stack, IntOf(WordDigits(mapping, rpn[1].val))))
    ELSE IF Len(stack) < 2 THEN <<>>
    ELSE LET a == stack[Len(stack) - 1]
             b == stack[Len(stack)]
             rest == SubSeq(stack, 1, Len(stack) - 2)
             op == rpn[1].val[1]
         IN  IF op = "+" THEN IntEval(Tail(rpn), mapping, Append(rest, a + b))
             ELSE IF op = "-" THEN IntEval(Tail(rpn), mapping, Append(rest, a - b))
             ELSE IF op = "*" THEN IntEval(Tail(rpn), mapping, Append(rest, a * b))
             ELSE IF b = 0 \/ a < 0 \/ b < 0 THEN <<>>
             ELSE IntEval(Tail(rpn), mapping, Append(rest, a \div b))

\* the left-hand side is the same integer as the result word
SameInteger(equation, mapping) ==
    LET stack == IntEval(equation.rpn_token, mapping, <<>>)
    IN  /\ Len(stack) = 1
        /\ stack[1] >= 0
        /\ Decimal(stack[1]) = StripZeros(WordDigits(mapping, equation.result))

----------------------------------------------------------------------------
(* Valid assignments, and the order in which a search meets them.          *)

Injective(f) == \A x, y \in DOMAIN f : f[x] = f[y] => x = y

\* a complete assignment the evaluator accepts
ValidAssignment(equation, m) ==
    /\ Injective(m)
    /\ \A c \in equation.special_chars : m[c] # 0
    /\ apply_operation([equation EXCEPT !.mapping = m]) = "true"

ValidAssignments(equation) ==
    {m \in [equation.unique_chars -> 0..MaxDigit] : ValidAssignment(equation, m)}

HasValid(equation) ==
    \E m \in [equation.unique_chars -> 0..MaxDigit] : ValidAssignment(equation, m)

\* where digit d stands in the order of trial
Position(digits, d) == CHOOSE j \in 1..Len(digits) : digits[j] = d

\* m comes no later than m2 when letters are taken in ascending order and
\* the digits of each letter in the order of digits
Before(m, m2, digits) ==
    \/ m = m2
    \/ \E c \in DOMAIN m :
          /\ Position(digits, m[c]) < Position(digits, m2[c])
          /\ \A c2 \in DOMAIN m : CharOrd(c2) < CharOrd(c) => m[c2] = m2[c2]

\* the first valid assignment in depth-first order, or the empty mapping
FirstOf(valid, digits) ==
    IF valid = {} THEN EmptyMapping
    ELSE CHOOSE m \in valid : \A m2 \in valid : Before(m, m2, digits)

FirstValid(equation, digits) == FirstOf(ValidAssignments(equation), digits)

\* the thread has been spawned
Started(t) == t.pc # "unspawned"

----------------------------------------------------------------------------
(* The claims.                                                             *)

\* C1: every non-empty mapping solve returns gives every letter of the
\* puzzle a digit 0..9, distinct letters distinct digits, no leading letter
\* the digit 0, and makes the left-hand side the same integer as the result.
C1_ReturnedMappingSolves ==
    \A k \in 1..Len(caller.results) :
        LET m == caller.results[k].value
        IN  m # EmptyMapping =>
               /\ DOMAIN m = LettersOf(input)
               /\ Range(m) \subseteq 0..MaxDigit
               /\ Injective(m)
               /\ \A c \in LeadingOf(input) : m[c] # 0
               /\ SameInteger(caller.equation, m)

\* C2: when the value the caller takes from the channel is the empty
\* mapping, both searches are over and neither has found or sent a solution.
C2_SentinelAfterSearches ==
    (caller.how = "recv" /\ caller.value = EmptyMapping) =>
        \A i \in 1..2 :
            /\ tasks[caller.spawned][i].pc = "done"
            /\ tasks[caller.spawned][i].status # "found"
            /\ tasks[caller.spawned][i].sends = 0

C2_Witness ==
    /\ caller.pc = "returning"
    /\ caller.how = "recv"
    /\ caller.value = EmptyMapping

\* C3: for a puzzle without a valid assignment each search ends reporting
\* failure (Ok(false)) having sent nothing, and every call of solve returns
\* the empty mapping.
C3_UnsatisfiableReportsFailure ==
    (caller.pc # "start" /\ caller.status = "ok" /\ ~HasValid(caller.equation)) =>
        /\ \A g \in Calls, i \in 1..2 :
              /\ tasks[g][i].sends = 0
              /\ tasks[g][i].pc # "panicked"
              /\ (tasks[g][i].pc = "done" => tasks[g][i].status = "notfound")
        /\ \A g \in Calls : supervisor[g].pc # "panicked"
        /\ \A k \in 1..Len(caller.results) : caller.results[k].value = EmptyMapping

\* C4: a non-empty mapping the body of solve returns is the first valid
\* assignment in depth-first order with digits tried 9 down to 0, or the
\* first one with digits tried 0 up to 9.
C4_FirstOfEitherSearch ==
    (caller.pc = "returning" /\ caller.value # EmptyMapping) =>
        \/ caller.value = FirstValid(caller.equation, Digits(1))
        \/ caller.value = FirstValid(caller.equation, Digits(2))

\* the ascending search has won on a puzzle where the two searches differ
C4_Witness ==
    /\ caller.pc = "returning"
    /\ caller.value # EmptyMapping
    /\ caller.value = FirstValid(caller.equation, Digits(2))
    /\ caller.value # FirstValid(caller.equation, Digits(1))

\* C5: a caller waiting in solve always gets back to its caller; when the
\* wait times out it returns the empty mapping, and the search threads
\* are left as they are and go on running.
C5_SolveAlwaysReturns ==
    /\ [](caller.pc = "waiting" => <>(caller.pc = "idle"))
    /\ [][CallerTimeout =>
            /\ now >= caller.called + RecvTimeout
            /\ caller'.value = EmptyMapping
            /\ caller'.pc = "returning"]_vars
    /\ [][(CallerTimeout \/ (SolveReturn /\ caller.how = "timeout")) =>
            /\ tasks' = tasks
            /\ supervisor' = supervisor]_vars
    /\ []((caller.pc = "idle" /\ caller.how = "timeout") =>
            \A g \in Calls, i \in 1..2 : tasks[g][i].pc = "send" => CanSend(channel[g]))

\* solve has returned by time-out while a search is still running
C5_Witness ==
    /\ caller.pc = "idle"
    /\ Len(caller.results) > 0
    /\ caller.results[Len(caller.results)].how = "timeout"
    /\ caller.results[Len(caller.results)].value = EmptyMapping
    /\ \E g \in Calls, i \in 1..2 : tasks[g][i].pc \in {"call", "loop", "return", "send"}

\* C6: a call of solve made less than 120 s after an outcome was stored is
\* a cache hit: it returns the stored mapping, the empty one included, and
\* spawns no threads.
C6_CachedWithinTTL ==
    \A j, k \in 1..Len(caller.results) :
        (/\ j < k
         /\ caller.results[j].how # "hit"
         /\ caller.results[k].called - caller.results[j].returned < TTL) =>
            /\ caller.results[k].how = "hit"
            /\ caller.results[k].value = caller.results[j].value
            /\ caller.results[k].spawned = caller.results[j].spawned

\* a timed-out call, then a hit that returns its empty mapping
C6_Witness ==
    /\ Len(caller.results) = 2
    /\ caller.results[1].how = "timeout"
    /\ caller.results[2].how = "hit"
    /\ caller.results[2].value = EmptyMapping
    /\ caller.results[2].called > caller.results[1].returned

\* C7: an evaluation error on one candidate does not end the search: a
\* search that is over on a puzzle with a valid assignment has found one.
C7_ErrorsAbsorbed ==
    \A g \in Calls, i \in 1..2 :
        (tasks[g][i].pc \in {"done", "panicked"} /\ tasks[g][i].status # "found") =>
            ~HasValid(caller.equation)

\* an operator of the postfix sequence meets fewer than two operands
RECURSIVE Underflows(_, _)
Underflows(rpn, depth) ==
    IF Len(rpn) = 0 THEN FALSE
    ELSE IF rpn[1].tag = "Word" THEN Underflows(Tail(rpn), depth + 1)
    ELSE depth < 2 \/ Underflows(Tail(rpn), depth - 1)

\* C8: an input whose postfix form applies an operator to fewer than two
\* operands is rejected by parse_input with an error (an Err, not a
\* panic): no Equation comes back and no search thread is started.
C8_UnderflowRejected ==
    (caller.pc # "start" /\ Underflows(ScanInput(input).equation.rpn_token, 0)) =>
        /\ caller.pc = "rejected"
        /\ caller.status = "err"
        /\ caller.equation = NewEquation
        /\ \A g \in Calls, i \in 1..2 : ~Started(tasks[g][i])

\* C9: in an accepted input with exactly one '=', the word that follows
\* '=' is the result and is no postfix token, and the words before '=' are
\* the postfix operands.
C9_ResultFollowsEquals ==
    (/\ caller.pc = "idle"
     /\ Cardinality(EqualsSigns(input)) = 1
     /\ \E j \in WordStarts(input) : \A e \in EqualsSigns(input) : j > e) =>
        LET e == CHOOSE x \in EqualsSigns(input) : TRUE
            before == {j \in WordStarts(input) : j < e}
            after == {j \in WordStarts(input) : j > e}
        IN  /\ caller.equation.result = WordAt(input, Min(after))
            /\ RpnWords(caller.equation.rpn_token) = WordsFrom(input, before)

\* the values on the stack after the last token of a postfix sequence
\* that never runs short of operands
RECURSIVE FinalDepth(_, _)
FinalDepth(rpn, depth) ==
    IF Len(rpn) = 0 THEN depth
    ELSE IF rpn[1].tag = "Word" THEN FinalDepth(Tail(rpn), depth + 1)
    ELSE FinalDepth(Tail(rpn), depth - 1)

\* C10: an input is accepted only if its postfix sequence leaves exactly
\* one value on the evaluation stack.
C10_ExactlyOneValue ==
    caller.pc = "idle" => FinalDepth(caller.equation.rpn_token, 0) = 1

\* C11: a search that is over has reported success exactly when the puzzle
\* has a valid assignment, and the mapping it leaves on success is the
\* first valid assignment in its own order of trial.
C11_SearchFindsFirst ==
    \A g \in Calls, i \in 1..2 :
        tasks[g][i].pc \in {"done", "panicked"} =>
            /\ (tasks[g][i].status = "found") = HasValid(caller.equation)
            /\ tasks[g][i].status = "found" =>
                  tasks[g][i].equation.mapping = FirstValid(caller.equation, tasks[g][i].digits)

\* C12: the mapping of a search never gives one digit to two letters and
\* never gives 0 to a leading letter.
C12_MappingInjectiveNoLeadingZero ==
    \A g \in Calls, i \in 1..2 :
        /\ Injective(tasks[g][i].equation.mapping)
        /\ \A c \in DOMAIN tasks[g][i].equation.mapping :
              c \in LeadingOf(input) => tasks[g][i].equation.mapping[c] # 0

\* a search has moved past digits that were in use or 0 for a leading
\* letter, and holds a digit for every letter of a two-letter puzzle
C12_Witness ==
    \E g \in Calls, i \in 1..2 :
        /\ tasks[g][i].pc = "call"
        /\ Cardinality(DOMAIN tasks[g][i].equation.mapping) = 2
        /\ Len(tasks[g][i].stack) = 2
        /\ tasks[g][i].stack[1].i > 1
        /\ tasks[g][i].stack[2].i > 2

\* C13 as stated: in every state of a search the unassigned letters and
\* the letters of the mapping are disjoint and together are all the
\* letters of the puzzle.
C13_LettersPartitioned ==
    \A g \in Calls, i \in 1..2 :
        Started(tasks[g][i]) =>
            /\ tasks[g][i].equation.unique_chars \cap DOMAIN tasks[g][i].equation.mapping = {}
            /\ tasks[g][i].equation.unique_chars \cup DOMAIN tasks[g][i].equation.mapping
                  = LettersOf(input)

\* C13, amended: the two sets are always disjoint; together they are all
\* the letters of the puzzle whenever backtrack is entered or returns, and
\* all but the letter in hand while the innermost call is in its loop
\* between taking that letter and giving it a digit.
C13_LettersPartitionedAtCalls ==
    \A g \in Calls, i \in 1..2 :
        Started(tasks[g][i]) =>
            /\ tasks[g][i].equation.unique_chars \cap DOMAIN tasks[g][i].equation.mapping = {}
            /\ tasks[g][i].equation.unique_chars \cup DOMAIN tasks[g][i].equation.mapping
                  = LettersOf(input) \
                      (IF tasks[g][i].pc = "loop" THEN {Top(tasks[g][i]).ch} ELSE {})

\* the second letter is in hand after a digit of it has failed, while the
\* first letter has a digit
C13_Witness ==
    \E g \in Calls, i \in 1..2 :
        /\ tasks[g][i].pc = "loop"
        /\ Len(tasks[g][i].stack) = 2
        /\ tasks[g][i].stack[2].i > 1
        /\ DOMAIN tasks[g][i].equation.mapping = {tasks[g][i].stack[1].ch}
        /\ tasks[g][i].equation.unique_chars = {}

\* C14: a call of backtrack that runs out of digits returns with the
\* mapping and the unassigned letters it was entered with, and after a
\* failed search the mapping is empty and every letter is unassigned.
C14_FailureRestores ==
    /\ [][\A g \in Calls, i \in 1..2 :
            (TaskLoop(g, i) /\ tasks'[g][i].pc = "return") =>
                /\ tasks'[g][i].ret = "false"
                /\ tasks'[g][i].equation.mapping = Top(tasks[g][i]).mapping
                /\ tasks'[g][i].equation.unique_chars = Top(tasks[g][i]).unique_chars]_vars
    /\ [](\A g \in Calls, i \in 1..2 :
            (tasks[g][i].pc = "done" /\ tasks[g][i].status = "notfound") =>
                /\ tasks[g][i].equation.mapping = EmptyMapping
                /\ tasks[g][i].equation.unique_chars = LettersOf(input))

\* the call for the second letter of a two-letter puzzle has run out of
\* digits and returned to the loop of the first
C14_Witness ==
    \E g \in Calls, i \in 1..2 :
        /\ tasks[g][i].pc = "return"
        /\ tasks[g][i].ret = "false"
        /\ Len(tasks[g][i].stack) = 1
        /\ Cardinality(LettersOf(input)) = 2
        /\ DOMAIN tasks[g][i].equation.mapping = {tasks[g][i].stack[1].ch}
        /\ tasks[g][i].equation.unique_chars = LettersOf(input) \ {tasks[g][i].stack[1].ch}

\* C15: the supervisor writes the empty mapping to the channel only when
\* both searches are over and neither has written a result.
C15_SentinelOnlyIfNoResult ==
    [][\A g \in Calls :
          (SupervisorSend(g) /\ channel'[g].queue # channel[g].queue) =>
              \A i \in 1..2 :
                  /\ tasks[g][i].pc \in {"done", "panicked"}
                  /\ tasks[g][i].sends = 0]_vars

\* C16: the slot holds at most one message; a send never happens while
\* the slot is full and the receiver lives, never replaces a message,
\* changes nothing when the receiver is gone, leaves the sender running
\* and the caller as it was; the caller takes the message at the head.
C16_FirstSendWins ==
    /\ [](\A g \in Calls : Len(channel[g].queue) <= 1)
    /\ [][\A g \in Calls, i \in 1..2 :
            TaskSend(g, i) =>
                /\ ~channel[g].receiver \/ channel[g].queue = <<>>
                /\ ~channel[g].receiver => channel' = channel
                /\ SubSeq(channel'[g].queue, 1, Len(channel[g].queue)) = channel[g].queue
                /\ tasks'[g][i].pc = "return"
                /\ caller' = caller]_vars
    /\ [][\A g \in Calls :
            SupervisorSend(g) =>
                /\ ~channel[g].receiver \/ channel[g].queue = <<>>
                /\ ~channel[g].receiver => channel' = channel
                /\ SubSeq(channel'[g].queue, 1, Len(channel[g].queue)) = channel[g].queue
                /\ supervisor'[g].pc = "done"
                /\ caller' = caller]_vars
    /\ [][\A g \in Calls :
            channel'[g].queue # channel[g].queue =>
                \/ /\ CallerRecv
                   /\ g = caller.spawned
                   /\ caller'.value = Head(channel[g].queue)
                \/ channel'[g].queue =
                      Append(channel[g].queue, channel'[g].queue[Len(channel'[g].queue)])]_vars

\* both searches have found and sent their different solutions at every
\* level, and the one call of solve has returned the winner's
C16_Witness ==
    /\ \A i \in 1..2 :
          tasks[1][i].pc = "done" /\ tasks[1][i].status = "found" /\ tasks[1][i].sends = 2
    /\ tasks[1][1].equation.mapping # tasks[1][2].equation.mapping
    /\ Len(caller.results) = 1
    /\ caller.results[1].how = "recv"
    /\ caller.results[1].value \in {tasks[1][1].equation.mapping, tasks[1][2].equation.mapping}
    /\ supervisor[1].pc = "done"

Max(set) == CHOOSE x \in set : \A y \in set : x >= y

\* a op b of two values that may have failed already
InfixApply(op, a, b) ==
    IF a.panic \/ b.panic THEN [panic |-> TRUE, val |-> U32Zero]
    ELSE ApplyOperator(op, a.val, b.val)

\* the value of the infix text from lo to hi under mapping m, read by the
\* grammar: a sum is split at its last '+' or '-', a product at its last
\* '*' or '/', and what has no operator is a word
RECURSIVE InfixValue(_, _, _, _)
InfixValue(text, m, lo, hi) ==
    LET low == {k \in lo..hi : text[k] = "+" \/ text[k] = "-"}
        high == {k \in lo..hi : text[k] = "*" \/ text[k] = "/"}
        word == ParseU32(WordDigits(m, SubSeq(text, lo, hi)))
    IN  IF low # {}
        THEN InfixApply(text[Max(low)], InfixValue(text, m, lo, Max(low) - 1),
                        InfixValue(text, m, Max(low) + 1, hi))
        ELSE IF high # {}
        THEN InfixApply(text[Max(high)], InfixValue(text, m, lo, Max(high) - 1),
                        InfixValue(text, m, Max(high) + 1, hi))
        ELSE [panic |-> ~word.ok, val |-> word.val]

\* C17: for a text  word (operator word)* = word,  evaluating the parsed
\* postfix sequence under a complete mapping leaves the value of the infix
\* left-hand side with '*' and '/' binding tighter than '+' and '-' and
\* equal precedence applied left to right, and fails exactly when that
\* value does; the evaluator reports equality exactly when this value is
\* the result word's.
C17_PostfixIsInfix ==
    tasks[1][1].pc # "unspawned" =>
        LET m == tasks[1][1].equation.mapping
            ev == EvalTokens([caller.equation EXCEPT !.mapping = m], 1, <<>>)
            lhs == InfixValue(input, m, 1, Min(EqualsSigns(input)) - 1)
            result == ParseU32(WordDigits(m, WordAt(input, Min(EqualsSigns(input)) + 1)))
        IN  /\ (ev.status = "panic") = lhs.panic
            /\ lhs.panic => tasks[1][1].pc = "panicked"
            /\ ~lhs.panic =>
                  /\ ev.status = "ok"
                  /\ ev.stack = <<lhs.val>>
                  /\ tasks[1][1].pc = "return"
                  /\ (tasks[1][1].ret = "true") = (result.ok /\ lhs.val = result.val)

\* A-B*C/D=E has been evaluated with A = 7, B = 2, C = 7, D = 2, where
\* 7 - ((2 * 7) / 2) = 0 is the result and no other reading gives it
C17_Witness ==
    /\ input = <<"A", "-", "B", "*", "C", "/", "D", "=", "E">>
    /\ tasks[1][1].pc = "return"
    /\ tasks[1][1].ret = "true"
    /\ tasks[1][1].equation.mapping = [c \in {"A", "B", "C", "D", "E"} |->
                                      IF c = "B" \/ c = "D" THEN 2
                                      ELSE IF c = "E" THEN 0 ELSE 7]

\* C18: every send blocked on the full slot completes, and both search
\* threads and the supervisor of a call come to their end, whatever the
\* interleaving, once the caller has returned and dropped its receiver.
C18_SendersTerminate ==
    /\ \A g \in Calls, i \in 1..2 :
          [](tasks[g][i].pc = "send" => <>(tasks[g][i].pc # "send"))
    /\ \A g \in Calls, i \in 1..2 :
          [](Started(tasks[g][i]) => <>(tasks[g][i].pc \in {"done", "panicked"}))
    /\ \A g \in Calls :
          [](supervisor[g].pc # "unspawned" => <>(supervisor[g].pc \in {"done", "panicked"}))
    /\ \A g \in Calls :
          []((caller.pc = "waiting" /\ caller.spawned = g) =>
                <>(~channel[g].receiver /\ SendersDropped(g)))

\* a search thread is blocked in its send: the slot is full, the receiver
\* lives, and the other search is over
C18_Witness ==
    \E g \in Calls, i \in 1..2 :
        /\ channel[g].receiver
        /\ Len(channel[g].queue) = 1
        /\ tasks[g][i].pc = "send"
        /\ tasks[g][3 - i].pc = "done"

\* C19: a search thread sends only after its search has found a solution,
\* once in each activation of backtrack on the way back (once per letter),
\* and each of these sends carries the same mapping, which has a digit for
\* every letter of the puzzle: never a partial mapping, never two mappings.
C19_SendsSameCompleteMapping ==
    /\ [](\A g \in Calls, i \in 1..2 :
            /\ tasks[g][i].ret # "true" => tasks[g][i].sends = 0
            /\ tasks[g][i].ret = "true" =>
                  /\ DOMAIN tasks[g][i].equation.mapping = LettersOf(input)
                  /\ tasks[g][i].sends + Len(tasks[g][i].stack) = Cardinality(LettersOf(input))
            /\ tasks[g][i].status = "found" =>
                  tasks[g][i].sends = Cardinality(LettersOf(input)))
    /\ [][\A g \in Calls, i \in 1..2 :
            TaskSend(g, i) =>
                /\ tasks[g][i].ret = "true"
                /\ DOMAIN tasks[g][i].equation.mapping = LettersOf(input)
                /\ tasks'[g][i].sends = tasks[g][i].sends + 1
                /\ channel' # channel =>
                      channel'[g].queue = <<tasks[g][i].equation.mapping>>]_vars
    /\ [][\A g \in Calls, i \in 1..2 :
            (tasks[g][i].ret = "true" /\ tasks'[g][i].ret = "true") =>
                tasks'[g][i].equation.mapping = tasks[g][i].equation.mapping]_vars

\* a search of a puzzle of two letters is over with its solution, after
\* its two sends
C19_Witness ==
    \E g \in Calls, i \in 1..2 :
        /\ tasks[g][i].pc = "done"
        /\ tasks[g][i].status = "found"
        /\ Cardinality(LettersOf(input)) = 2
        /\ tasks[g][i].sends = 2

====
